---- MODULE Spec2Model ----
(***************************************************************************)
(* compress_pickle: dump / dumps / load / loads.                           *)
(*                                                                         *)
(* The four entry points of compress_pickle.py are modelled step by step   *)
(* (prologue up to the opened stream, the try body, the finally clause,    *)
(* the return).  The helpers imported from .utils, the pickle codec and    *)
(* the compression containers are modelled next to them.  The environment  *)
(* keeps one artifact at a time: a file on disk or a byte string held by   *)
(* the caller.                                                             *)
(***************************************************************************)
EXTENDS Integers, Sequences, FiniteSets, TLC

\* Largest element value of the objects that are pickled.
MaxElem == 1

-----------------------------------------------------------------------------
(* Objects and the pickle codec (the external serializer).                 *)

\* An element that pickle cannot encode (a lambda, an open socket, ...).
Unpicklable == <<-1>>

Picklable == {<<>>, <<1, 0>>} \cup {<<a>> : a \in 0..MaxElem}

Objects == Picklable \cup {Unpicklable}

\* Python's None, as returned by dump and by a call that raised.
NoneValue == <<-2>>

Opcode == [proto |-> 128, int |-> 75, stop |-> 46]

Byte(n) == n % 256

RECURSIVE PickleItems(_)
PickleItems(o) ==
    IF o = <<>> THEN <<>>
    ELSE <<Opcode.int, Byte(Head(o))>> \o PickleItems(Tail(o))

CanPickle(o) == \A i \in 1..Len(o) : o[i] >= 0

\* pickle.dumps(obj): the byte string of a picklable object.
PickleDumps(o) == <<Opcode.proto>> \o PickleItems(o) \o <<Opcode.stop>>

RECURSIVE UnpickleItems(_)
\* The items between the protocol byte and the stop opcode; <<-1>> marks
\* a malformed stream.
UnpickleItems(b) ==
    IF b = <<>> THEN <<>>
    ELSE IF Len(b) < 2 \/ b[1] # Opcode.int THEN <<-1>>
    ELSE LET rest == UnpickleItems(SubSeq(b, 3, Len(b)))
         IN  IF rest = <<-1>> THEN <<-1>> ELSE <<b[2]>> \o rest

\* pickle.loads(bytes): [ok, obj].
PickleLoads(b) ==
    IF Len(b) < 2 \/ b[1] # Opcode.proto \/ b[Len(b)] # Opcode.stop
    THEN [ok |-> FALSE, obj |-> NoneValue]
    ELSE LET items == UnpickleItems(SubSeq(b, 2, Len(b) - 1))
         IN  IF items = <<-1>> THEN [ok |-> FALSE, obj |-> NoneValue]
             ELSE [ok |-> TRUE, obj |-> items]

-----------------------------------------------------------------------------
(* The compression containers (the external compression libraries).        *)

Magic == [gzip |-> 31, bz2 |-> 66, lzma |-> 253, zipfile |-> 80]

FilterSchemes == {"gzip", "bz2", "lzma"}
ArchiveSchemes == {"zipfile"}
RawSchemes == {"none", "pickle"}
KnownSchemes == RawSchemes \cup FilterSchemes \cup ArchiveSchemes

Squeeze(s, b) == [i \in 1..Len(b) |-> Byte(b[i] + Magic[s])]
Unsqueeze(s, b) == [i \in 1..Len(b) |-> Byte(b[i] + 256 - Magic[s])]

\* What a filter stream has written to its file object once it is closed:
\* header, compressed payload, trailer with the payload's length.
FilterEncode(s, b) == <<Magic[s]>> \o Squeeze(s, b) \o <<Byte(Len(b))>>

\* Reading through a filter stream: [ok, data].
FilterDecode(s, c) ==
    IF Len(c) < 2 \/ c[1] # Magic[s] \/ c[Len(c)] # Byte(Len(c) - 2)
    THEN [ok |-> FALSE, data |-> <<>>]
    ELSE [ok |-> TRUE, data |-> Unsqueeze(s, SubSeq(c, 2, Len(c) - 1))]

ArcNames == {"thing", "default"}
ArcNameId == [thing |-> 1, default |-> 2]
EndOfDirectory == [mark |-> 6]

\* An archive holds a sequence of entries [name, data].
RECURSIVE ZipMembers(_)
ZipMembers(es) ==
    IF es = <<>> THEN <<>>
    ELSE <<ArcNameId[Head(es).name], Byte(Len(Head(es).data))>>
         \o Head(es).data \o ZipMembers(Tail(es))

\* What a closed archive has written: the members, then the directory.
ZipEncode(es) ==
    <<Magic.zipfile>> \o ZipMembers(es) \o <<EndOfDirectory.mark, Len(es)>>

RECURSIVE ZipParseMembers(_, _)
\* [ok, entries] of n members at the head of b, with nothing left over.
ZipParseMembers(b, n) ==
    IF n = 0 THEN [ok |-> b = <<>>, entries |-> <<>>]
    ELSE IF Len(b) < 2 \/ b[1] \notin {ArcNameId[a] : a \in ArcNames}
              \/ Len(b) < 2 + b[2]
    THEN [ok |-> FALSE, entries |-> <<>>]
    ELSE LET nm == CHOOSE a \in ArcNames : ArcNameId[a] = b[1]
             rest == ZipParseMembers(SubSeq(b, 3 + b[2], Len(b)), n - 1)
         IN  [ok |-> rest.ok,
              entries |-> IF rest.ok
                          THEN <<[name |-> nm, data |-> SubSeq(b, 3, 2 + b[2])]>>
                               \o rest.entries
                          ELSE <<>>]

\* zipfile.ZipFile(file, "r"): the directory at the end is read first.
ZipDecode(c) ==
    IF Len(c) < 3 \/ c[1] # Magic.zipfile \/ c[Len(c) - 1] # EndOfDirectory.mark
    THEN [ok |-> FALSE, entries |-> <<>>]
    ELSE ZipParseMembers(SubSeq(c, 2, Len(c) - 2), c[Len(c)])

HasMember(es, nm) == \E i \in 1..Len(es) : es[i].name = nm
MemberData(es, nm) == es[CHOOSE i \in 1..Len(es) : es[i].name = nm].data

-----------------------------------------------------------------------------
(* The scheme registry and the helpers imported from .utils.               *)

NoMode == "None"
NoExt == "-"

\* Descriptors in registration order.
Registry ==
    << [name |-> "none",    extensions |-> <<>>,       write |-> "wb+", read |-> "rb+"],
       [name |-> "pickle",  extensions |-> <<"pkl">>,  write |-> "wb+", read |-> "rb+"],
       [name |-> "gzip",    extensions |-> <<"gz">>,   write |-> "wb",  read |-> "rb"],
       [name |-> "bz2",     extensions |-> <<"bz">>,   write |-> "wb",  read |-> "rb"],
       [name |-> "lzma",    extensions |-> <<"lzma">>, write |-> "wb",  read |-> "rb"],
       [name |-> "zipfile", extensions |-> <<"zip">>,  write |-> "w",   read |-> "r"] >>

Exts == {"pkl", "gz", "bz", "lzma", "zip", "xyz"}

IsRegistered(c) == \E i \in 1..Len(Registry) : Registry[i].name = c

\* lookup(name): the descriptor of a registered scheme.
Lookup(c) == Registry[CHOOSE i \in 1..Len(Registry) : Registry[i].name = c]

HasExt(d, e) == \E j \in 1..Len(d.extensions) : d.extensions[j] = e

\* reverse_lookup(extension): the first scheme, in registration order, that
\* lists the extension; "" when none does.
ReverseLookup(e) ==
    IF \E i \in 1..Len(Registry) : HasExt(Registry[i], e)
    THEN LET i == CHOOSE k \in 1..Len(Registry) :
                      /\ HasExt(Registry[k], e)
                      /\ \A m \in 1..(k - 1) : ~HasExt(Registry[m], e)
         IN  Registry[i].name
    ELSE ""

CanonicalExt(c) ==
    IF Lookup(c).extensions = <<>> THEN NoExt ELSE Lookup(c).extensions[1]

\* validate_compression(compression, infer_is_valid): [err, compression].
ValidateCompression(c, infer_is_valid) ==
    IF c = "infer"
    THEN [err |-> IF infer_is_valid THEN "none" ELSE "InvalidArgumentError",
          compression |-> c]
    ELSE [err |-> IF IsRegistered(c) THEN "none" ELSE "UnknownSchemeError",
          compression |-> c]

\* get_compression_write_mode / get_compression_read_mode.
GetCompressionWriteMode(c) ==
    IF IsRegistered(c) THEN Lookup(c).write ELSE "UnknownSchemeError"
GetCompressionReadMode(c) ==
    IF IsRegistered(c) THEN Lookup(c).read ELSE "UnknownSchemeError"

IsRead(mode) == mode \in {"rb", "rb+", "r"}

\* preprocess_path(path, compression, unhandled_extensions,
\* set_default_extension): [err, ext, compression, warned].  The path is a
\* caller's stream (isStream) or the file "thing".ext .
PreprocessPath(isStream, ext, c, policy, sde) ==
    IF c = "infer"
    THEN IF isStream
         THEN [err |-> "InvalidArgumentError", ext |-> ext, compression |-> c,
               warned |-> FALSE]
         ELSE IF ReverseLookup(ext) # ""
         THEN [err |-> "none", ext |-> ext, compression |-> ReverseLookup(ext),
               warned |-> FALSE]
         ELSE IF policy = "raise"
         THEN [err |-> "UnrecognizedExtensionError", ext |-> ext,
               compression |-> c, warned |-> FALSE]
         ELSE [err |-> "none", ext |-> ext, compression |-> "pickle",
               warned |-> (policy = "warn")]
    ELSE [err |-> "none",
          ext |-> IF sde /\ ~isStream /\ CanonicalExt(c) # NoExt
                     /\ ~HasExt(Lookup(c), ext)
                  THEN CanonicalExt(c) ELSE ext,
          compression |-> c, warned |-> FALSE]

-----------------------------------------------------------------------------
(* Streams, archives and the artifact the environment keeps.               *)

\* The byte stream underneath: a file of the disk or an in-memory buffer.
\* opener is the function that opened it ("user" for the program that
\* calls the library).
NoRaw == [kind |-> "none", opener |-> "none", open |-> FALSE, data |-> <<>>,
          pos |-> 0, writable |-> FALSE]

\* The filter stream or archive member wrapped around it, if any.
NoIo == [kind |-> "none", open |-> FALSE, scheme |-> "none",
         pending |-> <<>>, written |-> FALSE, reading |-> FALSE]

NoArch == [exists |-> FALSE, open |-> FALSE, entries |-> <<>>,
           reading |-> FALSE]

NoOrigin == [obj |-> NoneValue, compression |-> "none", requested |-> "none"]

\* The one artifact kept between calls: a file "thing".ext or a byte
\* string; origin records the call that produced it, once it returned.
NoArtifact == [kind |-> "none", ext |-> NoExt, data |-> <<>>,
               origin |-> NoOrigin]

NewBuffer(who, bytes) ==
    [kind |-> "buffer", opener |-> who, open |-> TRUE, data |-> bytes,
     pos |-> 0, writable |-> TRUE]

\* write(bytes) on the byte stream at its position.
RawWrite(r, bytes) ==
    [r EXCEPT !.data = SubSeq(r.data, 1, r.pos) \o bytes,
              !.pos = r.pos + Len(bytes)]

\* read() on the byte stream from its position.
RawRest(r) == SubSeq(r.data, r.pos + 1, Len(r.data))

\* open_compression_stream(path, compression, stream, mode):
\* [err, raw, io, arch, arcname, must_close, creates].  fn is the calling
\* function, rawIn the caller's stream (NoRaw for a path), st the artifact
\* of the environment.
OpenCompressionStream(fn, isStream, ext, c, rawIn, mode, st) ==
    LET reading == IsRead(mode)
        exists == st.kind = "file" /\ st.ext = ext
        arcname == IF isStream THEN "default" ELSE "thing"
        fail(e) == [err |-> e, raw |-> rawIn, io |-> NoIo, arch |-> NoArch,
                    arcname |-> "", must_close |-> FALSE, creates |-> FALSE]
        raw == IF isStream THEN rawIn
               ELSE [kind |-> "file", opener |-> fn, open |-> TRUE,
                     data |-> IF reading THEN st.data ELSE <<>>,
                     pos |-> 0, writable |-> ~reading]
        zip == ZipDecode(RawRest(raw))
    IN  IF ~isStream /\ reading /\ ~exists THEN fail("FileNotFoundError")
        ELSE IF c \in RawSchemes
        THEN [err |-> "none", raw |-> raw, io |-> NoIo, arch |-> NoArch,
              arcname |-> "", must_close |-> ~isStream,
              creates |-> ~isStream /\ ~reading]
        ELSE IF c \in FilterSchemes
        THEN [err |-> "none", raw |-> raw,
              io |-> [kind |-> "filter", open |-> TRUE, scheme |-> c,
                      pending |-> <<>>, written |-> FALSE, reading |-> reading],
              arch |-> NoArch, arcname |-> "", must_close |-> ~isStream,
              creates |-> ~isStream /\ ~reading]
        ELSE IF reading /\ ~zip.ok THEN fail("BadZipFile")
        ELSE IF reading /\ ~HasMember(zip.entries, arcname) THEN fail("KeyError")
        ELSE [err |-> "none", raw |-> raw,
              io |-> [kind |-> "member", open |-> TRUE, scheme |-> c,
                      pending |-> IF reading
                                  THEN MemberData(zip.entries, arcname)
                                  ELSE <<>>,
                      written |-> FALSE, reading |-> reading],
              arch |-> [exists |-> TRUE, open |-> TRUE,
                        entries |-> IF reading THEN zip.entries ELSE <<>>,
                        reading |-> reading],
              arcname |-> arcname, must_close |-> ~isStream,
              creates |-> ~isStream /\ ~reading]

-----------------------------------------------------------------------------
(* State.                                                                  *)

VARIABLES
    pc,        \* "idle", "enter", "body", "finally", "unwind", "done"
    op,        \* the entry point the program called
    fn,        \* the function whose body runs: "dump" or "load"
    args,      \* the arguments of the entry point
    call,      \* the arguments dump or load was called with
    loc,       \* the local variables of dump or load
    raw,       \* the byte stream underneath
    io,        \* the filter stream or archive member around it
    arch,      \* the archive handle
    exc,       \* the exception being raised, "none" otherwise
    result,    \* the value returned
    warnings,  \* warnings emitted by the call
    store      \* the artifact the environment keeps

vars == <<pc, op, fn, args, call, loc, raw, io, arch, exc, result, warnings,
          store>>

Omitted == "<omitted>"
CompressionArgs == {"infer", "bogus"} \cup KnownSchemes
ModeArgs == {NoMode, "rb"}
Policies == {"raise", "ignore", "warn"}
Targets == {[isStream |-> TRUE, ext |-> NoExt]}
           \cup {[isStream |-> FALSE, ext |-> e] : e \in Exts}

NoArgs == [obj |-> NoneValue, isStream |-> FALSE, ext |-> NoExt,
           compression |-> "none", mode |-> NoMode, policy |-> "raise",
           sde |-> TRUE]

NoLoc == [compression |-> "none", ext |-> NoExt, mode |-> NoMode,
          must_close |-> FALSE, arcname |-> "", resolverSde |-> "unset",
          stage |-> "bind", bodyExc |-> "none", fault |-> FALSE]

Init ==
    /\ pc = "idle"
    /\ op = "none"
    /\ fn = "none"
    /\ args = NoArgs
    /\ call = NoArgs
    /\ loc = NoLoc
    /\ raw = NoRaw
    /\ io = NoIo
    /\ arch = NoArch
    /\ exc = "none"
    /\ result = NoneValue
    /\ warnings = 0
    /\ store = NoArtifact

-----------------------------------------------------------------------------
(* dump and load up to the opened stream.                                  *)

\* What the lines before the try statement leave behind.
Opened(v, p, mode, o, a, rawIn) ==
    LET stage == IF v.err # "none" THEN "validate"
                 ELSE IF p.err # "none" THEN "resolve"
                 ELSE IF mode = "UnknownSchemeError" THEN "mode"
                 ELSE "open"
        err == IF v.err # "none" THEN v.err
               ELSE IF p.err # "none" THEN p.err
               ELSE IF mode = "UnknownSchemeError" THEN mode
               ELSE o.err
        resolved == v.err = "none"
        opened == err = "none"
    IN  [exc |-> err,
         loc |-> [compression |-> IF resolved /\ p.err = "none"
                                  THEN p.compression ELSE a.compression,
                  ext |-> IF resolved THEN p.ext ELSE a.ext,
                  mode |-> IF stage = "open" THEN mode ELSE a.mode,
                  must_close |-> opened /\ o.must_close,
                  arcname |-> IF opened THEN o.arcname ELSE "",
                  resolverSde |-> IF ~resolved THEN "unset"
                                  ELSE IF a.sde THEN "on" ELSE "off",
                  stage |-> stage, bodyExc |-> "none", fault |-> FALSE],
         raw |-> IF opened THEN o.raw ELSE rawIn,
         io |-> IF opened THEN o.io ELSE NoIo,
         arch |-> IF opened THEN o.arch ELSE NoArch,
         warned |-> resolved /\ p.warned,
         creates |-> opened /\ o.creates]

DumpValidate(a) == ValidateCompression(a.compression, TRUE)

DumpResolveNoPolicy(a) ==
    PreprocessPath(a.isStream, a.ext, a.compression, "raise", a.sde)

DumpResolve(a) ==
    PreprocessPath(a.isStream, a.ext, a.compression, a.policy, a.sde)

DumpMode(requested, resolved, mode) ==
    IF mode = NoMode THEN GetCompressionWriteMode(resolved) ELSE mode

DumpPrologue(a, rawIn, st) ==
    LET v == DumpValidate(a)
        p == DumpResolve(a)
        mode == DumpMode(a.compression, p.compression, a.mode)
        o == OpenCompressionStream("dump", a.isStream, p.ext, p.compression,
                                   rawIn, mode, st)
    IN  Opened(v, p, mode, o, a, rawIn)

LoadValidate(a) == ValidateCompression(a.compression, TRUE)

LoadResolve(a) ==
    PreprocessPath(a.isStream, a.ext, a.compression, a.policy, a.sde)

LoadModeOfRequested(requested, resolved, mode) ==
    IF mode = NoMode THEN GetCompressionReadMode(requested) ELSE mode

LoadMode(requested, resolved, mode) ==
    IF mode = NoMode THEN GetCompressionReadMode(resolved) ELSE mode

LoadPrologue(a, rawIn, st) ==
    LET v == LoadValidate(a)
        p == LoadResolve(a)
        mode == LoadMode(a.compression, p.compression, a.mode)
        o == OpenCompressionStream("load", a.isStream, p.ext, p.compression,
                                   rawIn, mode, st)
    IN  Opened(v, p, mode, o, a, rawIn)

\* A file is created only where the environment keeps no other artifact.
MayCreate(r, st) ==
    r.creates => (st.kind = "none" \/ (st.kind = "file" /\ st.ext = r.loc.ext))

Created(r, st) ==
    IF r.creates
    THEN [kind |-> "file", ext |-> r.loc.ext, data |-> <<>>, origin |-> NoOrigin]
    ELSE st

\* The state once dump or load, called with a and rawIn, reaches its try.
Enter(f, a, rawIn, r) ==
    /\ MayCreate(r, store)
    /\ pc' = IF r.exc = "none" THEN "body"
             ELSE IF op' = f THEN "done" ELSE "unwind"
    /\ fn' = f
    /\ call' = a
    /\ loc' = r.loc
    /\ raw' = r.raw
    /\ io' = r.io
    /\ arch' = r.arch
    /\ exc' = r.exc
    /\ result' = NoneValue
    /\ warnings' = IF r.warned THEN 1 ELSE 0
    /\ store' = Created(r, store)

\* dump(obj, path, compression, mode, unhandled_extensions,
\* set_default_extension) called by the program.
DumpCall ==
    /\ pc = "idle"
    /\ \E o \in Objects, t \in Targets, c \in CompressionArgs, m \in ModeArgs,
          pol \in Policies, sde \in BOOLEAN :
          LET a == [obj |-> o, isStream |-> t.isStream, ext |-> t.ext,
                    compression |-> c, mode |-> m, policy |-> pol, sde |-> sde]
              rawIn == IF t.isStream THEN NewBuffer("user", <<>>) ELSE NoRaw
          IN  /\ op' = "dump"
              /\ args' = a
              /\ Enter("dump", a, rawIn, DumpPrologue(a, rawIn, store))

\* load(path, compression, mode, set_default_extension,
\* unhandled_extensions) called by the program.  A stream handed in holds
\* the byte string the caller keeps.
LoadCall ==
    /\ pc = "idle"
    /\ \E t \in Targets, c \in CompressionArgs, m \in ModeArgs,
          pol \in Policies, sde \in BOOLEAN :
          LET a == [obj |-> NoneValue, isStream |-> t.isStream, ext |-> t.ext,
                    compression |-> c, mode |-> m, policy |-> pol, sde |-> sde]
              rawIn == IF t.isStream
                       THEN NewBuffer("user", IF store.kind = "bytes"
                                              THEN store.data ELSE <<>>)
                       ELSE NoRaw
          IN  /\ op' = "load"
              /\ args' = a
              /\ Enter("load", a, rawIn, LoadPrologue(a, rawIn, store))

-----------------------------------------------------------------------------
(* The try bodies: pickle.dump and pickle.load on the opened stream.       *)

\* write(bytes) on io_stream: the wrapper if there is one, else the byte
\* stream itself.
StreamWrite(bytes, r, w) ==
    IF w.kind = "none"
    THEN IF r.writable
         THEN [err |-> "none", raw |-> RawWrite(r, bytes), io |-> w]
         ELSE [err |-> "UnsupportedOperation", raw |-> r, io |-> w]
    ELSE IF w.reading
    THEN [err |-> "UnsupportedOperation", raw |-> r, io |-> w]
    ELSE [err |-> "none", raw |-> r,
          io |-> [w EXCEPT !.pending = w.pending \o bytes, !.written = TRUE]]

\* pickle.dump(obj, io_stream).
PickleDump(obj, r, w) ==
    IF CanPickle(obj) THEN StreamWrite(PickleDumps(obj), r, w)
    ELSE [err |-> "PicklingError", raw |-> r, io |-> w]

\* arch.writestr(arcname, buff).
WriteStr(arcname, buff, a) ==
    IF a.reading THEN [err |-> "ValueError", arch |-> a]
    ELSE [err |-> "none",
          arch |-> [a EXCEPT !.entries =
                        Append(a.entries, [name |-> arcname, data |-> buff])]]

\* The try body of dump; legacy is sys.version_info < (3, 6).
DumpTry(legacy, obj, arcname, r, w, a) ==
    IF a.exists /\ legacy
    THEN IF CanPickle(obj)
         THEN LET ws == WriteStr(arcname, PickleDumps(obj), a)
              IN  [err |-> ws.err, raw |-> r, io |-> w, arch |-> ws.arch]
         ELSE [err |-> "PicklingError", raw |-> r, io |-> w, arch |-> a]
    ELSE LET d == PickleDump(obj, r, w)
         IN  [err |-> d.err, raw |-> d.raw, io |-> d.io, arch |-> a]

\* A file's bytes are the bytes of the stream that writes it.
SyncStore(st, r) ==
    IF r.kind = "file" /\ r.writable THEN [st EXCEPT !.data = r.data] ELSE st

DumpBody ==
    /\ pc = "body"
    /\ fn = "dump"
    /\ \E legacy \in (IF arch.exists THEN BOOLEAN ELSE {FALSE}) :
          LET t == DumpTry(legacy, call.obj, loc.arcname, raw, io, arch)
          IN  /\ raw' = t.raw
              /\ io' = t.io
              /\ arch' = t.arch
              /\ exc' = t.err
              /\ loc' = [loc EXCEPT !.stage = "body", !.bodyExc = t.err]
              /\ store' = SyncStore(store, t.raw)
    /\ pc' = "finally"
    /\ UNCHANGED <<op, fn, args, call, result, warnings>>

\* pickle.load(io_stream): [err, obj, raw].
PickleLoad(r, w) ==
    LET plain == IF w.kind = "none"
                 THEN [ok |-> TRUE, data |-> RawRest(r)]
                 ELSE IF w.kind = "filter"
                 THEN FilterDecode(w.scheme, RawRest(r))
                 ELSE [ok |-> TRUE, data |-> w.pending]
        after == IF w.kind = "member" THEN r
                 ELSE [r EXCEPT !.pos = Len(r.data)]
        got == PickleLoads(plain.data)
    IN  IF w.kind # "none" /\ ~w.reading
        THEN [err |-> "UnsupportedOperation", obj |-> NoneValue, raw |-> r]
        ELSE IF ~plain.ok
        THEN [err |-> "BadStream", obj |-> NoneValue, raw |-> after]
        ELSE IF ~got.ok
        THEN [err |-> "UnpicklingError", obj |-> NoneValue, raw |-> after]
        ELSE [err |-> "none", obj |-> got.obj, raw |-> after]

\* The try body of load.
LoadTry(r, w) == PickleLoad(r, w)

LoadBody ==
    /\ pc = "body"
    /\ fn = "load"
    /\ LET t == LoadTry(raw, io)
       IN  /\ raw' = t.raw
           /\ exc' = t.err
           /\ result' = t.obj
           /\ loc' = [loc EXCEPT !.stage = "body", !.bodyExc = t.err]
    /\ pc' = "finally"
    /\ UNCHANGED <<op, fn, args, call, io, arch, warnings, store>>

-----------------------------------------------------------------------------
(* The finally clauses.  A close call either succeeds (ok) or raises an    *)
(* OSError; a close that raises has flushed nothing and has released the   *)
(* handle.                                                                 *)

\* The byte stream is released with the last handle the call has on it.
Release(owns, r, w, a) ==
    IF owns /\ ~w.open /\ ~a.open THEN [r EXCEPT !.open = FALSE] ELSE r

\* io_stream.close(); owns: the byte stream was opened for this wrapper.
CloseIo(ok, owns, arcname, r, w, a) ==
    IF w.kind = "none"
    THEN [err |-> IF ok THEN "none" ELSE "OSError",
          raw |-> [r EXCEPT !.open = FALSE], io |-> w, arch |-> a]
    ELSE LET w2 == [w EXCEPT !.open = FALSE]
             flush == ok /\ w.open /\ ~w.reading
             r2 == IF flush /\ w.kind = "filter"
                   THEN RawWrite(r, FilterEncode(w.scheme, w.pending)) ELSE r
             a2 == IF flush /\ w.kind = "member" /\ w.written
                   THEN [a EXCEPT !.entries =
                            Append(a.entries,
                                   [name |-> arcname, data |-> w.pending])]
                   ELSE a
         IN  [err |-> IF ok THEN "none" ELSE "OSError",
              raw |-> Release(owns, r2, w2, a2), io |-> w2, arch |-> a2]

\* arch.close().
CloseArch(ok, owns, r, w, a) ==
    LET a2 == [a EXCEPT !.open = FALSE]
        r2 == IF ok /\ a.open /\ ~a.reading
              THEN RawWrite(r, ZipEncode(a.entries)) ELSE r
    IN  [err |-> IF ok THEN "none" ELSE "OSError",
         raw |-> Release(owns, r2, w, a2), io |-> w, arch |-> a2]

Untouched(r, w, a) == [err |-> "none", raw |-> r, io |-> w, arch |-> a]

\* The finally clause of dump with the flag ignored.
DumpCleanupAlways(must_close, ok1, ok2, owns, arcname, r, w, a) ==
    IF a.exists
    THEN LET c1 == CloseIo(ok1, owns, arcname, r, w, a)
         IN  IF c1.err # "none" THEN c1
             ELSE CloseArch(ok2, owns, c1.raw, c1.io, c1.arch)
    ELSE CloseIo(ok1, owns, arcname, r, w, a)

\* The finally clause of dump: io_stream.close(), then arch.close().
DumpCleanup(must_close, ok1, ok2, owns, arcname, r, w, a) ==
    IF a.exists
    THEN IF must_close
         THEN LET c1 == CloseIo(ok1, owns, arcname, r, w, a)
              IN  IF c1.err # "none" THEN c1
                  ELSE CloseArch(ok2, owns, c1.raw, c1.io, c1.arch)
         ELSE Untouched(r, w, a)
    ELSE IF must_close THEN CloseIo(ok1, owns, arcname, r, w, a)
         ELSE Untouched(r, w, a)

\* The finally clause of load: arch.close(), then io_stream.close().
LoadCleanup(must_close, ok1, ok2, owns, arcname, r, w, a) ==
    IF a.exists
    THEN IF must_close
         THEN LET c1 == CloseArch(ok1, owns, r, w, a)
              IN  IF c1.err # "none" THEN c1
                  ELSE CloseIo(ok2, owns, arcname, c1.raw, c1.io, c1.arch)
         ELSE Untouched(r, w, a)
    ELSE IF must_close THEN CloseIo(ok1, owns, arcname, r, w, a)
         ELSE Untouched(r, w, a)

\* The close calls that can fail: the first, and the second of an archive.
FirstClose == IF loc.must_close THEN BOOLEAN ELSE {TRUE}
SecondClose(ok1) ==
    IF loc.must_close /\ arch.exists /\ ok1 THEN BOOLEAN ELSE {TRUE}

\* The state after the finally clause: an exception raised by a close
\* call replaces the one of the try body, which is otherwise re-raised.
Leave(c, ok1, ok2) ==
    /\ raw' = c.raw
    /\ io' = c.io
    /\ arch' = c.arch
    /\ exc' = IF c.err # "none" THEN c.err ELSE exc
    /\ result' = IF c.err # "none" \/ exc # "none" THEN NoneValue ELSE result
    /\ loc' = [loc EXCEPT !.stage = "finally", !.fault = ~(ok1 /\ ok2)]
    /\ store' = SyncStore(store, c.raw)
    /\ pc' = IF op = fn THEN "done" ELSE "unwind"
    /\ UNCHANGED <<op, fn, args, call, warnings>>

DumpFinally ==
    /\ pc = "finally"
    /\ fn = "dump"
    /\ \E ok1 \in FirstClose : \E ok2 \in SecondClose(ok1) :
          Leave(DumpCleanup(loc.must_close, ok1, ok2, raw.opener = "dump",
                            loc.arcname, raw, io, arch), ok1, ok2)

LoadFinally ==
    /\ pc = "finally"
    /\ fn = "load"
    /\ \E ok1 \in FirstClose : \E ok2 \in SecondClose(ok1) :
          Leave(LoadCleanup(loc.must_close, ok1, ok2, raw.opener = "load",
                            loc.arcname, raw, io, arch), ok1, ok2)

-----------------------------------------------------------------------------
(* dumps and loads.                                                        *)

\* A call that stops before dump or load is entered.
Stop(e, stage) ==
    /\ pc' = "done"
    /\ exc' = e
    /\ loc' = [NoLoc EXCEPT !.stage = stage]
    /\ call' = NoArgs
    /\ raw' = NoRaw
    /\ UNCHANGED <<fn, io, arch, result, warnings, store>>

\* A call that goes on into dump or load with a fresh buffer.
GoOn(inner, buffer) ==
    /\ pc' = "enter"
    /\ exc' = "none"
    /\ loc' = [NoLoc EXCEPT !.stage = "validate"]
    /\ call' = inner
    /\ raw' = buffer
    /\ UNCHANGED <<fn, io, arch, result, warnings, store>>

DumpsDefaultInfer == "infer"

\* The default of dumps' compression parameter: None.
DumpsDefaultCompression == "none"

DumpsValidateInferValid(c) == ValidateCompression(c, TRUE)

DumpsValidate(c) == ValidateCompression(c, FALSE)

\* The arguments dumps calls dump with.
DumpsInner(obj, c) ==
    [obj |-> obj, isStream |-> TRUE, ext |-> NoExt, compression |-> c,
     mode |-> NoMode, policy |-> "raise", sde |-> FALSE]

\* dumps(obj, compression) called by the program.  The scheme handed on to
\* dump is the value validate_compression returns.
DumpsCall ==
    /\ pc = "idle"
    /\ store.kind \in {"none", "bytes"}
    /\ \E o \in Objects, c \in CompressionArgs \cup {Omitted} :
          LET bound == IF c = Omitted THEN DumpsDefaultCompression ELSE c
              v == DumpsValidate(bound)
          IN  /\ op' = "dumps"
              /\ args' = [NoArgs EXCEPT !.obj = o, !.isStream = TRUE,
                                        !.compression = c]
              /\ IF v.err # "none" THEN Stop(v.err, "validate")
                 ELSE GoOn(DumpsInner(o, v.compression),
                           NewBuffer("dumps", <<>>))

DumpFromDumps ==
    /\ pc = "enter"
    /\ op = "dumps"
    /\ UNCHANGED <<op, args>>
    /\ Enter("dump", call, raw, DumpPrologue(call, raw, store))

\* return stream.getvalue()
DumpsReturn ==
    /\ pc = "unwind"
    /\ op = "dumps"
    /\ pc' = "done"
    /\ result' = IF exc = "none" THEN raw.data ELSE NoneValue
    /\ UNCHANGED <<op, fn, args, call, loc, raw, io, arch, exc, warnings,
                   store>>

LoadsValidate(c) == ValidateCompression(c, FALSE)

\* The arguments loads calls load with: set_default_extension and
\* unhandled_extensions are not forwarded, load's defaults apply.
LoadsInner(c) ==
    [obj |-> NoneValue, isStream |-> TRUE, ext |-> NoExt, compression |-> c,
     mode |-> NoMode, policy |-> "raise", sde |-> TRUE]

\* loads(data, compression, set_default_extension) called by the program
\* on the byte string the caller keeps.
LoadsCall ==
    /\ pc = "idle"
    /\ \E c \in CompressionArgs \cup {Omitted}, sde \in BOOLEAN :
          LET data == IF store.kind = "bytes" THEN store.data ELSE <<>>
              v == LoadsValidate(c)
          IN  /\ op' = "loads"
              /\ args' = [NoArgs EXCEPT !.isStream = TRUE, !.compression = c,
                                        !.sde = sde]
              /\ IF c = Omitted THEN Stop("TypeError", "bind")
                 ELSE IF v.err # "none" THEN Stop(v.err, "validate")
                 ELSE GoOn(LoadsInner(c), NewBuffer("loads", data))

LoadFromLoads ==
    /\ pc = "enter"
    /\ op = "loads"
    /\ UNCHANGED <<op, args>>
    /\ Enter("load", call, raw, LoadPrologue(call, raw, store))

\* The end of the with block: the buffer is closed, then the value is
\* returned or the exception goes on.
LoadsExit ==
    /\ pc = "unwind"
    /\ op = "loads"
    /\ pc' = "done"
    /\ raw' = [raw EXCEPT !.open = FALSE]
    /\ UNCHANGED <<op, fn, args, call, loc, io, arch, exc, result, warnings,
                   store>>

-----------------------------------------------------------------------------
(* Between calls.                                                          *)

\* The artifact a finished call leaves to the environment.
Kept ==
    IF exc # "none" THEN store
    ELSE IF op = "dump" /\ store.kind = "file" /\ raw.kind = "file"
            /\ raw.writable
    THEN [store EXCEPT !.origin = [obj |-> args.obj,
                                   compression |-> loc.compression,
                                   requested |-> args.compression]]
    ELSE IF op = "dumps"
    THEN [kind |-> "bytes", ext |-> NoExt, data |-> result,
          origin |-> [obj |-> args.obj, compression |-> loc.compression,
                      requested |-> args.compression]]
    ELSE store

\* The call has returned or raised; the program goes on.
Return ==
    /\ pc = "done"
    /\ pc' = "idle"
    /\ op' = "none"
    /\ fn' = "none"
    /\ args' = NoArgs
    /\ call' = NoArgs
    /\ loc' = NoLoc
    /\ raw' = NoRaw
    /\ io' = NoIo
    /\ arch' = NoArch
    /\ exc' = "none"
    /\ result' = NoneValue
    /\ warnings' = 0
    /\ store' = Kept

\* The environment deletes the file, or the caller drops the byte string.
Forget ==
    /\ pc = "idle"
    /\ store.kind # "none"
    /\ store' = NoArtifact
    /\ UNCHANGED <<pc, op, fn, args, call, loc, raw, io, arch, exc, result,
                   warnings>>

Next ==
    \/ DumpCall
    \/ DumpFromDumps
    \/ DumpBody
    \/ DumpFinally
    \/ DumpsCall
    \/ DumpsReturn
    \/ LoadCall
    \/ LoadFromLoads
    \/ LoadBody
    \/ LoadFinally
    \/ LoadsCall
    \/ LoadsExit
    \/ Return
    \/ Forget

Spec == Init /\ [][Next]_vars

-----------------------------------------------------------------------------
(* Properties.                                                             *)

\* io_stream, the first value open_compression_stream returns, is closed.
IoStreamClosed == IF io.kind = "none" THEN ~raw.open ELSE ~io.open

\* dump or load has run its finally clause and has returned or raised.
Left == pc \in {"unwind", "done"} /\ loc.stage = "finally"

\* dump or load was entered with a stream of its caller and has not yet
\* handed control back past its caller's own cleanup.
HoldsCallerStream ==
    /\ fn \in {"dump", "load"}
    /\ call.isStream
    /\ pc \in {"body", "finally", "unwind"} \/ (pc = "done" /\ op = fn)

IsBytes(b) == \A i \in 1..Len(b) : b[i] \in 0..255

\* The file or byte string at hand was left by a call that returned
\* normally.
Produced == store.origin # NoOrigin

SchemesWithExt == {c \in KnownSchemes : CanonicalExt(c) # NoExt}

\* C1 (the case of a call on a filesystem path, where every handle is one
\* the call opened): when dump or load returns or raises, the byte stream,
\* the stream wrapped around it and the archive handle are all closed.
C1_OwnHandlesClosed ==
    (pc = "done" /\ op = fn /\ ~call.isStream)
        => /\ raw.kind # "none" => ~raw.open
           /\ io.kind # "none" => ~io.open
           /\ arch.exists => ~arch.open

\* C2: a stream the caller handed to dump or load is open throughout the
\* call and after it, whatever the scheme and whether the call returns or
\* raises; when dump returns normally the stream is positioned at the end
\* of what was written to it.
C2_CallerStreamLeftOpen ==
    HoldsCallerStream
        => /\ raw.kind = "buffer"
           /\ raw.opener # fn
           /\ raw.open
           /\ (fn = "dump" /\ Left /\ exc = "none") => raw.pos = Len(raw.data)

\* C2 witness: dump has returned normally on a caller's stream that holds
\* the pickle it wrote and is still open.
C2_Witness ==
    /\ pc = "done"
    /\ op = "dump"
    /\ call.isStream
    /\ exc = "none"
    /\ raw.open
    /\ raw.data = PickleDumps(<<1, 0>>)
    /\ raw.pos = Len(raw.data)

\* C3: loads, given the bytes dumps returned for a picklable object and
\* the same scheme, returns that object.
C3_BytesRoundTrip ==
    (/\ pc = "done"
     /\ op = "loads"
     /\ store.kind = "bytes"
     /\ Produced
     /\ store.origin.compression = args.compression)
        => /\ exc = "none"
           /\ result = store.origin.obj

\* C4: dumps with compression "infer" raises InvalidArgumentError from its
\* own validation, with no buffer made and dump never entered; dumps of a
\* picklable object with a registered scheme returns a byte string.
C4_DumpsNeedsConcreteScheme ==
    (pc = "done" /\ op = "dumps")
        => /\ args.compression = "infer"
                => /\ exc = "InvalidArgumentError"
                   /\ loc.stage = "validate"
                   /\ raw = NoRaw
                   /\ fn = "none"
           /\ (args.compression \in KnownSchemes /\ CanPickle(args.obj))
                => /\ exc = "none"
                   /\ result = raw.data
                   /\ IsBytes(result)

\* C4 witness: dumps was called with "infer" and has raised from its
\* validation.
C4_Witness ==
    /\ pc = "done"
    /\ op = "dumps"
    /\ args.compression = "infer"
    /\ exc = "InvalidArgumentError"
    /\ raw = NoRaw

UnknownExtCall ==
    /\ pc = "done"
    /\ op \in {"dump", "load"}
    /\ ~args.isStream
    /\ args.compression = "infer"
    /\ ReverseLookup(args.ext) = ""

\* C6: with "infer" and an extension no scheme lists, "raise" ends the
\* call with UnrecognizedExtensionError before any stream is opened;
\* "ignore" goes on with the raw scheme and no warning; "warn" goes on with
\* the raw scheme and exactly one warning.  Under both, dump of a picklable
\* object returns, and load returns the object a dump left in the file.
C6_UnknownExtensionPolicy ==
    /\ warnings \in {0, 1}
    /\ UnknownExtCall
        => /\ args.policy = "raise"
                => /\ exc = "UnrecognizedExtensionError"
                   /\ raw = NoRaw /\ io = NoIo /\ arch = NoArch
                   /\ warnings = 0
           /\ args.policy \in {"ignore", "warn"}
                => /\ loc.compression \in RawSchemes
                   /\ warnings = IF args.policy = "warn" THEN 1 ELSE 0
                   /\ exc # "UnrecognizedExtensionError"
                   /\ (op = "dump" /\ CanPickle(args.obj)
                       /\ args.mode = NoMode /\ ~loc.fault)
                        => exc = "none" /\ result = NoneValue
                   /\ (op = "load" /\ store.kind = "file"
                       /\ store.ext = args.ext /\ Produced
                       /\ store.origin.compression \in RawSchemes
                       /\ ~loc.fault)
                        => exc = "none" /\ result = store.origin.obj

\* C6 witness: load under "warn" has read back, with one warning, the
\* object an earlier dump with "infer" left in the file "thing.xyz".
C6_Witness ==
    /\ UnknownExtCall
    /\ op = "load"
    /\ args.policy = "warn"
    /\ warnings = 1
    /\ exc = "none"
    /\ store.origin.requested = "infer"
    /\ result = <<1, 0>>

\* C7: for a scheme S with canonical extension E, dump with "infer" to
\* "thing"+E resolves S and, with no mode given, opens with S's default
\* write mode; load with "infer" from that file resolves S, opens with S's
\* default read mode and returns the object dumped.
C7_InferRoundTrip ==
    \A s \in SchemesWithExt :
        (/\ pc = "done"
         /\ op \in {"dump", "load"}
         /\ ~args.isStream
         /\ args.compression = "infer"
         /\ args.ext = CanonicalExt(s))
            => /\ loc.compression = s
               /\ (op = "dump" /\ args.mode = NoMode)
                    => /\ loc.mode = Lookup(s).write
                       /\ (CanPickle(args.obj) /\ ~loc.fault) => exc = "none"
               /\ (op = "load" /\ args.mode = NoMode)
                    => /\ loc.mode = Lookup(s).read
                       /\ (/\ store.kind = "file"
                           /\ store.ext = args.ext
                           /\ Produced
                           /\ store.origin.requested = "infer"
                           /\ ~loc.fault)
                            => exc = "none" /\ result = store.origin.obj

\* C7 witness: load with "infer" has read back from "thing.zip" the
\* object a dump with "infer" left there.
C7_Witness ==
    /\ pc = "done"
    /\ op = "load"
    /\ args.compression = "infer"
    /\ args.ext = "zip"
    /\ args.mode = NoMode
    /\ loc.compression = "zipfile"
    /\ store.origin.requested = "infer"
    /\ exc = "none"
    /\ result = <<1, 0>>

\* C8: under dumps and under loads, preprocess_path is never called with
\* set_default_extension enabled.
C8_BytesCallsDisableNormalize ==
    op \in {"dumps", "loads"} => loc.resolverSde # "on"

\* C9: when the try body of dump or load raises, the call raises that
\* same exception.
C9_BodyErrorPropagates ==
    (Left /\ loc.bodyExc # "none") => exc = loc.bodyExc

\* C10: the flag open_compression_stream returns is false for a caller's
\* stream and true for a filesystem path, for every scheme, and after the
\* finally clause io_stream and the archive are closed exactly if the flag
\* is true.
C10_FlagGovernsCleanup ==
    /\ (fn \in {"dump", "load"} /\ loc.stage \in {"open", "body", "finally"}
        /\ (loc.stage = "open" => exc = "none"))
        => loc.must_close = ~call.isStream
    /\ Left
        => (loc.must_close <=> (IoStreamClosed /\ (arch.exists => ~arch.open)))

====
